---- MODULE Spec2Model ----
(***************************************************************************)
(* The project-intelligence dashboard: load_all_data (data_loader.py) and  *)
(* one script run of main_dashboard (app.py): widgets, filter step, KPI     *)
(* row, grouped charts, drill-down dialog and the cross-entity tabs.        *)
(*                                                                         *)
(* A DataFrame is a sequence of rows (records); a missing cell is NaN in a  *)
(* numeric column and NA in a text column.  Text that is searched (the      *)
(* project name, the search box) is a sequence of one-character strings.    *)
(***************************************************************************)
EXTENDS Integers, Sequences, FiniteSets, TLC

\* ------------------------------------------------------------------ cells

\* pandas NaN of a numeric column (ids, years and amounts of the model are >= 0)
NaN == -1
\* a raw spreadsheet cell holding text that pd.to_numeric cannot parse
Unparseable == -2
\* missing value of a text column
NA == "<NA>"
\* missing value of the searched Project (name) column
NaNName == <<"<NA>">>

\* ----------------------------------------------------------------- bounds

MaxProjects == 2
MaxRoles == 2
MaxProducts == 2
MaxEvents == 2
MaxSessions == 2

\* ------------------------------------------------------- ordering of text

\* Python's ordering of the text values the model uses (sorted(), groupby keys,
\* Series.mode): the position in this ascending list.
TextOrder == <<"<NA>", "Active", "Alum", "AquaCorp", "BuildCo", "Complete", "Contractor", "Kenya", "Oman", "Owner", "Power", "Water", "Zinc">>

Rank(s) == CHOOSE i \in 1..Len(TextOrder) : TextOrder[i] = s

TextLess(a, b) == Rank(a) < Rank(b)

\* ------------------------------------------------------------ text helpers

\* str.lower() on the characters of the model's alphabet
LowerChar(c) == CASE c = "D" -> "d" [] c = "R" -> "r" [] OTHER -> c

StrLower(s) == [i \in 1..Len(s) |-> LowerChar(s[i])]

\* str.contains(needle) for a literal needle (the alphabet holds no regex metacharacter)
Contains(hay, needle) ==
    \E i \in 1..(Len(hay) - Len(needle) + 1) : SubSeq(hay, i, i + Len(needle) - 1) = needle

DigitChar == <<"0", "1", "2", "3", "4", "5", "6", "7", "8", "9">>

RECURSIVE IntStr(_)
IntStr(n) == IF n < 10 THEN <<DigitChar[n + 1]>> ELSE IntStr(n \div 10) \o <<DigitChar[(n % 10) + 1]>>

\* Series.astype(str) of the id column: an int64 column prints "2"; a column that
\* holds a NaN is float64 and prints "2.0" and "nan".
AsTypeStr(id, hasNaN) ==
    IF id = NaN THEN <<"n", "a", "n">>
    ELSE IF hasNaN THEN IntStr(id) \o <<".", "0">>
    ELSE IntStr(id)

\* ------------------------------------------------------ generic sequences

Range(s) == {s[i] : i \in 1..Len(s)}

RECURSIVE SeqSum(_)
SeqSum(s) == IF s = <<>> THEN 0 ELSE Head(s) + SeqSum(Tail(s))

\* sequences over S of length 0..n
SeqsUpTo(S, n) == UNION {[1..k -> S] : k \in 0..n}

\* unique(): the distinct values in first-seen order
RECURSIVE Unique(_)
Unique(s) ==
    IF s = <<>> THEN <<>>
    ELSE LET rest == Unique(SubSeq(s, 1, Len(s) - 1))
             x == s[Len(s)]
         IN  IF x \in Range(rest) THEN rest ELSE Append(rest, x)

Column(df, c) == [i \in 1..Len(df) |-> df[i][c]]

\* ------------------------------------------------- the workbook on disk

\* Rows of the "Projects" sheet as the spreadsheet holds them.  The first two are
\* the example of the specification; the others carry a blank name, country,
\* sector, status and year, an unparseable amount, a blank id, a year <= 1900
\* and a repeated id.
Dam == <<"D", "a", "m">>

R2 == <<"R", " ", "2">>

dam == <<"d", "a", "m">>

ProjectRows ==
    { [New_ProjectId |-> 1, Project |-> Dam, Country |-> "Kenya", Sector |-> "Water",
       ProjectStatus |-> "Active", AwardYear |-> 2019, NetValue |-> 10],
      [New_ProjectId |-> 2, Project |-> R2, Country |-> "Kenya", Sector |-> "Power",
       ProjectStatus |-> "Complete", AwardYear |-> 2021, NetValue |-> 5],
      [New_ProjectId |-> 3, Project |-> NaNName, Country |-> NA, Sector |-> NA,
       ProjectStatus |-> NA, AwardYear |-> NaN, NetValue |-> Unparseable],
      [New_ProjectId |-> NaN, Project |-> dam, Country |-> "Oman", Sector |-> "Water",
       ProjectStatus |-> "Active", AwardYear |-> 1900, NetValue |-> 5],
      [New_ProjectId |-> 2, Project |-> dam, Country |-> NA, Sector |-> "Power",
       ProjectStatus |-> "Active", AwardYear |-> 2019, NetValue |-> 5],
      [New_ProjectId |-> 3, Project |-> R2, Country |-> "Oman", Sector |-> NA,
       ProjectStatus |-> "Complete", AwardYear |-> Unparseable, NetValue |-> 10] }

ExampleProjects ==
    << [New_ProjectId |-> 1, Project |-> Dam, Country |-> "Kenya", Sector |-> "Water",
        ProjectStatus |-> "Active", AwardYear |-> 2019, NetValue |-> 10],
       [New_ProjectId |-> 2, Project |-> R2, Country |-> "Kenya", Sector |-> "Power",
        ProjectStatus |-> "Complete", AwardYear |-> 2021, NetValue |-> 5] >>

ExampleRoles == << [New_ProjectId |-> 1, Role |-> "Owner", CompanyName |-> "AquaCorp"] >>

\* Two projects that differ in id, name and amount only.
KenyaProjects ==
    << [New_ProjectId |-> 1, Project |-> Dam, Country |-> "Kenya", Sector |-> "Water",
        ProjectStatus |-> "Active", AwardYear |-> 2019, NetValue |-> 10],
       [New_ProjectId |-> 2, Project |-> R2, Country |-> "Kenya", Sector |-> "Water",
        ProjectStatus |-> "Active", AwardYear |-> 2019, NetValue |-> 5] >>

\* Rows of "Projects with Roles": id 9 references no project (an orphan row).
RoleRows ==
    [New_ProjectId : {1, 2, 9}, Role : {"Owner", "Contractor"}, CompanyName : {"AquaCorp"}]
        \cup { [New_ProjectId |-> 1, Role |-> "Owner", CompanyName |-> "BuildCo"],
               [New_ProjectId |-> 2, Role |-> "Owner", CompanyName |-> "BuildCo"],
               [New_ProjectId |-> 2, Role |-> "Owner", CompanyName |-> NA] }

\* Rows of "Projects with Products"
ProductRows ==
    [New_ProjectId : {1, 2, 9}, Product : {"Alum", "Zinc"}, Quantity : {5}]
        \cup { [New_ProjectId |-> 1, Product |-> "Alum", Quantity |-> Unparseable],
               [New_ProjectId |-> 2, Product |-> "Zinc", Quantity |-> Unparseable] }

\* Rows of "Projects with Events": dates as yyyymmdd numbers, or text that is no date
EventRows ==
    { [New_ProjectId |-> 1, EventDate |-> 20200501, EventType |-> "Award"],
      [New_ProjectId |-> 1, EventDate |-> 20210101, EventType |-> "Award"],
      [New_ProjectId |-> 1, EventDate |-> Unparseable, EventType |-> "Award"],
      [New_ProjectId |-> 2, EventDate |-> 20200501, EventType |-> "Start"],
      [New_ProjectId |-> 2, EventDate |-> Unparseable, EventType |-> "Start"],
      [New_ProjectId |-> 9, EventDate |-> 20200501, EventType |-> "Award"] }

\* The header of a sheet's identifier column as the spreadsheet spells it.
IdHeaders == {"New ProjectId", " New ProjectId ", "New\\xa0ProjectId", "ProjectId"}

Sheet(header, rows) == [idHeader |-> header, rows |-> rows]

\* A readable workbook: a function from the names of the sheets it holds.
Book(sheets) == [kind |-> "xlsx", sheets |-> sheets]

NoFile == [kind |-> "missing", sheets |-> <<>>]

CorruptFile == [kind |-> "unreadable", sheets |-> <<>>]

P == "Projects"

R == "Projects with Roles"

Q == "Projects with Products"

E == "Projects with Events"

\* The workbooks of the model: every Projects table of up to MaxProjects rows
\* with the example's roles; two Kenya projects with every Roles table of up to
\* MaxRoles rows, and (without a Roles sheet) with every Products table of up to
\* MaxProducts rows and with every Events table of up to MaxEvents rows; the
\* example under each spelling of the id headers (of all its sheets); the
\* example without a Roles sheet; a workbook without a Projects sheet, and one
\* with no known sheet at all.
Workbooks ==
    { Book((P :> Sheet("New ProjectId", p)) @@ (R :> Sheet("New ProjectId", ExampleRoles))) :
          p \in SeqsUpTo(ProjectRows, MaxProjects) }
    \cup { Book((P :> Sheet("New ProjectId", KenyaProjects)) @@ (R :> Sheet("New ProjectId", r))) :
          r \in SeqsUpTo(RoleRows, MaxRoles) }
    \cup { Book((P :> Sheet("New ProjectId", KenyaProjects)) @@ (Q :> Sheet("New ProjectId", q))) :
          q \in SeqsUpTo(ProductRows, MaxProducts) }
    \cup { Book((P :> Sheet("New ProjectId", KenyaProjects)) @@ (E :> Sheet("New ProjectId", e))) :
          e \in SeqsUpTo(EventRows, MaxEvents) }
    \cup { Book((P :> Sheet("New ProjectId", ExampleProjects)) @@ (Q :> Sheet(h, <<>>))
                @@ (E :> Sheet("New ProjectId", <<>>))) : h \in IdHeaders }
    \cup { Book((P :> Sheet("New ProjectId", ExampleProjects)) @@ (E :> Sheet(h, <<>>))) :
          h \in IdHeaders }
    \cup { Book((P :> Sheet(h1, ExampleProjects)) @@ (R :> Sheet(h2, ExampleRoles))) :
          h1 \in IdHeaders, h2 \in IdHeaders }
    \cup { Book(P :> Sheet("New ProjectId", ExampleProjects)),
           Book(R :> Sheet("New ProjectId", ExampleRoles)), Book(<<>>) }

Files == Workbooks \cup {NoFile, CorruptFile}

\* The files one export is replaced by another of: the example with and without
\* its Roles sheet, its Roles sheet alone, an unreadable file and no file.
SwapFiles ==
    { Book((P :> Sheet("New ProjectId", ExampleProjects)) @@ (R :> Sheet("New ProjectId", ExampleRoles))),
      Book(P :> Sheet("New ProjectId", ExampleProjects)),
      Book(R :> Sheet("New ProjectId", ExampleRoles)),
      CorruptFile, NoFile }

\* The files the access gate is followed over: none, an unreadable one, a
\* workbook without a Projects sheet and a workbook whose Projects sheet is empty.
AuthFiles ==
    { NoFile, CorruptFile,
      Book(R :> Sheet("New ProjectId", ExampleRoles)),
      Book(P :> Sheet("New ProjectId", <<>>)) }

\* ------------------------------------------------ data_loader.load_all_data

\* pd.to_numeric(errors='coerce')
ToNumeric(cell) == IF cell = Unparseable THEN NaN ELSE cell

\* .fillna(0)
FillNa0(x) == IF x = NaN THEN 0 ELSE x

\* columns.str.replace(r'\xa0', ' ')
ReplaceNbsp(h) == IF h = "New\\xa0ProjectId" THEN "New ProjectId" ELSE h

\* columns.str.strip()
Strip(h) == IF h = " New ProjectId " THEN "New ProjectId" ELSE h

\* df.rename(columns={'New ProjectId': 'New_ProjectId', ...})
Rename(h) == IF h = "New ProjectId" THEN "New_ProjectId" ELSE h

CleanHeader(h) == Rename(Strip(ReplaceNbsp(h)))

\* A loaded DataFrame: the name its identifier column ended up with, and its rows.
Frame(idcol, rows) == [idcol |-> idcol, rows |-> rows]

ParseProjects(sheet) ==
    Frame(CleanHeader(sheet.idHeader),
          [i \in 1..Len(sheet.rows) |->
              [sheet.rows[i] EXCEPT !.NetValue = FillNa0(ToNumeric(@)),
                                    !.AwardYear = ToNumeric(@)]])

ParseRoles(sheet) == Frame(CleanHeader(sheet.idHeader), sheet.rows)

ParseProducts(sheet) ==
    Frame(CleanHeader(sheet.idHeader),
          [i \in 1..Len(sheet.rows) |-> [sheet.rows[i] EXCEPT !.Quantity = FillNa0(ToNumeric(@))]])

\* pd.to_datetime(errors='coerce'): NaT (the NaN of a date column) for no date
ToDatetime(cell) == IF cell = Unparseable THEN NaN ELSE cell

ParseEvents(sheet) ==
    Frame(CleanHeader(sheet.idHeader),
          [i \in 1..Len(sheet.rows) |-> [sheet.rows[i] EXCEPT !.EventDate = ToDatetime(@)]])

\* The dictionary load_all_data builds from a readable workbook.
DataFrames(book) ==
    LET has(n) == n \in DOMAIN book.sheets
        dp == IF has(P) THEN "Projects" :> ParseProjects(book.sheets[P]) ELSE <<>>
        dr == IF has(R) THEN "Roles" :> ParseRoles(book.sheets[R]) ELSE <<>>
        dq == IF has(Q) THEN "Products" :> ParseProducts(book.sheets[Q]) ELSE <<>>
        de == IF has(E) THEN "Events" :> ParseEvents(book.sheets[E]) ELSE <<>>
    IN  dp @@ dr @@ de @@ dq

\* load_all_data: None when pd.ExcelFile raises (the except branch), else the dict.
None == [isNone |-> TRUE, frames |-> <<>>]

load_all_data(file) ==
    IF file.kind = "xlsx" THEN [isNone |-> FALSE, frames |-> DataFrames(file)] ELSE None

\* Python's truth value of the result: None and {} are falsy
Truthy(d) == ~d.isNone /\ DOMAIN d.frames # {}

\* dfs.get(name) is not None
Has(d, name) == name \in DOMAIN d.frames

\* df['New_ProjectId'] raises KeyError unless the frame has that column
HasIdColumn(frame) == frame.idcol = "New_ProjectId"

\* @st.cache_data keys an entry by the function and the values of its arguments,
\* here the path string alone: the value a call returns over the entries c when
\* `file` is what the path holds. The body runs only without an entry.
cache_data(c, file_path, file) ==
    IF file_path \in DOMAIN c THEN c[file_path] ELSE load_all_data(file)

\* the entries after that call: a first call stores what the body returned (None
\* included: the except clause returns, it does not raise)
cache_store(c, file_path, file) ==
    IF file_path \in DOMAIN c THEN c ELSE (file_path :> load_all_data(file)) @@ c

\* ------------------------------------------------ main_dashboard: widgets

\* What the user may type into the search box.
SearchTerms == { <<>>, <<" ">>, <<"D">>, <<"2", ".">> }

\* At most this many of the run's inputs (the six filter widgets and the row
\* selected in the Project List) are set in one run.
MaxActive == 2

\* sorted(df[col].dropna().unique()): the options of a multiselect (as a set)
Options(df, col) == Range(Column(df, col)) \ {NA}

\* [int(y) for y in df['AwardYear'].dropna().unique() if y > 1900]
YearFloor == 1900

YearOptions(df) == {y \in Range(Column(df, "AwardYear")) : y # NaN /\ y > YearFloor}

\* owners_df = df_roles[df_roles['Role'] == 'Owner']; its CompanyName options.
\* Without a Roles frame the widget is never drawn and selected_clients = [].
ClientOptions(d) ==
    IF Has(d, "Roles")
    THEN {r.CompanyName : r \in {x \in Range(d.frames["Roles"].rows) : x.Role = "Owner"}} \ {NA}
    ELSE {}

Bit(b) == IF b THEN 1 ELSE 0

ActiveCount(f) ==
    Bit(f.search_term # <<>>) + Bit(f.selected_countries # {}) + Bit(f.selected_sectors # {})
    + Bit(f.selected_status # {}) + Bit(f.selected_years # {}) + Bit(f.selected_clients # {})

\* The clauses of the filter step, by the filter widget each one reads.
Clauses == {"search", "country", "sector", "status", "year", "client"}

\* The values the widgets can return in one run over the loaded frames d: for
\* every choice A of the widgets that are set, a text or a non-empty selection
\* for each widget of A and the empty one for the others.
FilterSpecs(d) ==
    LET df == d.frames["Projects"].rows
        Set(on, values, empty) == IF on THEN values \ {empty} ELSE {empty}
    IN  UNION { [search_term : Set("search" \in A, SearchTerms, <<>>),
                 selected_countries : Set("country" \in A, SUBSET Options(df, "Country"), {}),
                 selected_sectors : Set("sector" \in A, SUBSET Options(df, "Sector"), {}),
                 selected_status : Set("status" \in A, SUBSET Options(df, "ProjectStatus"), {}),
                 selected_years : Set("year" \in A, SUBSET YearOptions(df), {}),
                 selected_clients : Set("client" \in A, SUBSET ClientOptions(d), {})] :
                A \in {B \in SUBSET Clauses : Cardinality(B) <= MaxActive} }

NoFilter ==
    [search_term |-> <<>>, selected_countries |-> {}, selected_sectors |-> {},
     selected_status |-> {}, selected_years |-> {}, selected_clients |-> {}]

\* --------------------------------------------- main_dashboard: filter step

\* df['Project'].str.lower().str.contains(term, na=False)
NameContains(name, term) == name # NaNName /\ Contains(StrLower(name), term)

\* df['New_ProjectId'].astype(str).str.contains(term, na=False)
IdContains(id, hasNaN, term) == Contains(AsTypeStr(id, hasNaN), term)

\* The dtype of the id column is set when the sheet is parsed: float64 when a
\* cell of it is blank. Row selection keeps the dtype of a column.
IdIsFloat(d) == NaN \in Range(Column(d.frames["Projects"].rows, "New_ProjectId"))

\* the search clause with the dtype inferred again from the rows that are left
SearchFilterRetyped(df, id_is_float, search_term) ==
    LET term == StrLower(search_term)
        hasNaN == NaN \in Range(Column(df, "New_ProjectId"))
        Hit(row) == NameContains(row.Project, term) \/ IdContains(row.New_ProjectId, hasNaN, term)
    IN  IF search_term # <<>> THEN SelectSeq(df, Hit) ELSE df

\* lines 191-197: the search clause, with the term lower-cased first, over rows
\* df of a frame whose id column is float64 iff id_is_float
SearchFilter(df, id_is_float, search_term) ==
    LET term == StrLower(search_term)
        Hit(row) == \/ NameContains(row.Project, term)
                    \/ IdContains(row.New_ProjectId, id_is_float, term)
    IN  IF search_term # <<>> THEN SelectSeq(df, Hit) ELSE df

\* the clause without its `if selected:` guard
IsinFilterUnguarded(df, col, selected) ==
    LET Hit(row) == row[col] \in selected
    IN  SelectSeq(df, Hit)

\* lines 199-206: if selected: df = df[df[col].isin(selected)]
IsinFilter(df, col, selected) ==
    LET Hit(row) == row[col] \in selected
    IN  IF selected # {} THEN SelectSeq(df, Hit) ELSE df

\* the candidate ids without the Role == 'Owner' test
ClientProjectIdsAnyRole(roles, selected_clients) ==
    {r.New_ProjectId : r \in {x \in Range(roles) : x.CompanyName \in selected_clients}}

\* lines 211-214: ids of the Role rows with Role == 'Owner' and CompanyName in the selection
ClientProjectIds(roles, selected_clients) ==
    {r.New_ProjectId : r \in {x \in Range(roles) : x.Role = "Owner" /\ x.CompanyName \in selected_clients}}

\* lines 209-216: the client clause runs only with a selection and a Roles frame
ClientFilter(df, d, selected_clients) ==
    LET Hit(row) == row.New_ProjectId \in ClientProjectIds(d.frames["Roles"].rows, selected_clients)
    IN  IF selected_clients # {} /\ Has(d, "Roles") THEN SelectSeq(df, Hit) ELSE df

\* lines 188-216 on frames that hold their id columns
ApplyFilters(d, f) ==
    LET s0 == d.frames["Projects"].rows
        s1 == SearchFilter(s0, IdIsFloat(d), f.search_term)
        s2 == IsinFilter(s1, "Country", f.selected_countries)
        s3 == IsinFilter(s2, "Sector", f.selected_sectors)
        s4 == IsinFilter(s3, "ProjectStatus", f.selected_status)
        s5 == IsinFilter(s4, "AwardYear", f.selected_years)
    IN  ClientFilter(s5, d, f.selected_clients)

\* The filter step reads df['New_ProjectId'] (KeyError without the column) in the
\* search clause (line 196) and in the client clause (lines 214, 216).
FilterRaises(d, f) ==
    \/ f.search_term # <<>> /\ ~HasIdColumn(d.frames["Projects"])
    \/ /\ f.selected_clients # {} /\ Has(d, "Roles")
       /\ ~HasIdColumn(d.frames["Roles"]) \/ ~HasIdColumn(d.frames["Projects"])

\* ------------------------------------------- main_dashboard: aggregations

\* The keys of a set in ascending order (groupby sorts its keys; Series.mode
\* returns the modes sorted).
SortedKeys(S) ==
    CHOOSE s \in [1..Cardinality(S) -> S] :
        Range(s) = S /\ \A i, j \in 1..Cardinality(S) : i < j => TextLess(s[i], s[j])

\* number of rows of df whose column col holds v
CountOf(df, col, v) == Cardinality({i \in 1..Len(df) : df[i][col] = v})

\* sum of column val over the rows of df whose column col holds v
SumWhere(df, col, v, val) ==
    LET Hit(row) == row[col] = v
    IN  SeqSum(Column(SelectSeq(df, Hit), val))

\* df['Net Project Value ($m)'].sum()
TotalValue(df) == SeqSum(Column(df, "NetValue"))

\* A float that is a quotient is kept exact, as numerator and denominator.
Ratio(n, d) == [num |-> n, den |-> d]

\* the mean over the rows with an amount only (what mean() gives without the
\* loader's fillna(0))
AvgValueSkipZero(df) ==
    LET n == Cardinality({i \in 1..Len(df) : df[i].NetValue # 0})
    IN  IF Len(df) > 0 THEN Ratio(TotalValue(df), n) ELSE Ratio(0, 1)

\* df[...].mean() if total_count > 0 else 0
AvgValue(df) == IF Len(df) > 0 THEN Ratio(TotalValue(df), Len(df)) ELSE Ratio(0, 1)

\* df['Sector'].mode(): the most frequent non-null values, in ascending order
Mode(df, col) ==
    LET vals == Range(Column(df, col)) \ {NA}
        best == {v \in vals : \A w \in vals : CountOf(df, col, w) <= CountOf(df, col, v)}
    IN  SortedKeys(best)

\* df.groupby(col)[val].sum().reset_index(): one row per non-null key, keys ascending
GroupSum(df, col, val) ==
    LET keys == SortedKeys(Range(Column(df, col)) \ {NA})
    IN  [i \in 1..Len(keys) |-> [key |-> keys[i], value |-> SumWhere(df, col, keys[i], val)]]

\* groupby(['AwardYear', 'ProjectStatus']) sum, then AwardYear > 2000 (lines 282-283)
TimelineFloor == 2000

YearStatusLess(a, b) ==
    \/ a.AwardYear < b.AwardYear
    \/ a.AwardYear = b.AwardYear /\ TextLess(a.ProjectStatus, b.ProjectStatus)

\* the (AwardYear, ProjectStatus) keys in ascending order
SortedYearStatus(S) ==
    CHOOSE s \in [1..Cardinality(S) -> S] :
        Range(s) = S /\ \A i, j \in 1..Cardinality(S) : i < j => YearStatusLess(s[i], s[j])

YearStats(df) ==
    LET keys == {[AwardYear |-> r.AwardYear, ProjectStatus |-> r.ProjectStatus] :
                    r \in {x \in Range(df) : x.AwardYear # NaN /\ x.ProjectStatus # NA}}
        Sum(k) == LET Hit(row) == row.AwardYear = k.AwardYear /\ row.ProjectStatus = k.ProjectStatus
                  IN  SeqSum(Column(SelectSeq(df, Hit), "NetValue"))
        sorted == SortedYearStatus(keys)
        rows == [i \in 1..Len(sorted) |-> [key |-> sorted[i], value |-> Sum(sorted[i])]]
        Late(row) == row.key.AwardYear > TimelineFloor
    IN  SelectSeq(rows, Late)

\* Series.value_counts() before its sort: one row per non-null value, first-seen order
ValueCounts(df, col) ==
    LET keys == Unique(SelectSeq(Column(df, col), LAMBDA v : v # NA))
    IN  [i \in 1..Len(keys) |-> [key |-> keys[i], value |-> CountOf(df, col, keys[i])]]

Descending(s) == \A i \in 1..(Len(s) - 1) : s[i].value >= s[i + 1].value

\* sort_values(ascending=False) with the default kind='quicksort': the result is
\* in descending order and the order among equal values is not defined, so every
\* descending arrangement of the rows is a possible result.
SortValuesDesc(s) ==
    { t \in [1..Len(s) -> Range(s)] : Range(t) = Range(s) /\ Descending(t) }

\* the rows as they stand, without the sort_values call
Unsorted(s) == {s}

\* sort_values('EventDate') (ascending, na_position='last', kind='quicksort'):
\* the dated rows in ascending order, rows of equal date in any order, then the
\* rows without a date in their original order.
SortByDate(s) ==
    LET n == Len(s)
        Ok(p) == /\ \A i, j \in 1..n : i # j => p[i] # p[j]
                 /\ \A i \in 1..(n - 1) :
                        \/ s[p[i]].EventDate # NaN /\ s[p[i + 1]].EventDate = NaN
                        \/ /\ s[p[i]].EventDate # NaN /\ s[p[i + 1]].EventDate # NaN
                           /\ s[p[i]].EventDate <= s[p[i + 1]].EventDate
                        \/ /\ s[p[i]].EventDate = NaN /\ s[p[i + 1]].EventDate = NaN
                           /\ p[i] < p[i + 1]
    IN  { [i \in 1..n |-> s[p[i]]] : p \in {q \in [1..n -> 1..n] : Ok(q)} }

\* .head(n)
HeadN(s, n) == SubSeq(s, 1, IF Len(s) < n THEN Len(s) ELSE n)

\* ----------------------------------------- main_dashboard: drill-down dialog

\* df[df['New_ProjectId'] == project_id]: == is False on a NaN on either side
IdEquals(df, project_id) ==
    LET Hit(row) == row.New_ProjectId # NaN /\ project_id # NaN /\ row.New_ProjectId = project_id
    IN  SelectSeq(df, Hit)

\* df[df['New_ProjectId'].isin(ids)]: isin matches a NaN with a NaN
IdIsin(df, ids) ==
    LET Hit(row) == row.New_ProjectId \in ids
    IN  SelectSeq(df, Hit)

NoDetails ==
    [status |-> "closed", project_id |-> NaN, proj |-> <<>>, roles |-> <<>>, prods |-> <<>>,
     evts |-> <<>>]

\* How show_project_details(project_id) ends, lines 296-338: .iloc[0] of the
\* matching rows of df_projects raises IndexError when there is none; the Roles,
\* Products and Events slices read their frame's id column.
DialogStatus(d, project_id) ==
    IF IdEquals(d.frames["Projects"].rows, project_id) = <<>> THEN "IndexError"
    ELSE IF \E n \in {"Roles", "Products", "Events"} : Has(d, n) /\ ~HasIdColumn(d.frames[n])
    THEN "KeyError"
    ELSE "shown"

\* the frame's rows of one project, when the dialog gets to draw them
Slice(d, name, project_id) ==
    IF Has(d, name) /\ DialogStatus(d, project_id) = "shown"
    THEN IdEquals(d.frames[name].rows, project_id) ELSE <<>>

\* the orders in which the dialog can list the project's events
DialogEvents(d, project_id) == SortByDate(Slice(d, "Events", project_id))

\* show_project_details(project_id) with its events in the order evts
show_project_details(d, project_id, evts) ==
    LET found == IdEquals(d.frames["Projects"].rows, project_id)
    IN  [status |-> DialogStatus(d, project_id),
         project_id |-> project_id,
         proj |-> IF found = <<>> THEN <<>> ELSE <<found[1]>>,
         roles |-> Slice(d, "Roles", project_id),
         prods |-> Slice(d, "Products", project_id),
         evts |-> evts]

\* ---------------------------------------------------------------- auth.py

ADMIN_EMAIL == "samer.el.sayegh@gmail.com"

\* The e-mail addresses and passwords typed into the forms ("" is an empty box).
Emails == {ADMIN_EMAIL, "user@example.com"}

Passwords == {"admin123", "secret"}

TypedEmails == Emails \cup {""}

TypedPasswords == Passwords \cup {""}

\* hashlib.sha256(password.encode()).hexdigest(): a digest, never the password;
\* distinct passwords of Passwords have distinct digests
hash_password(password) == <<"sha256", password>>

verify_password(stored_password_hash, provided_password) ==
    stored_password_hash = hash_password(provided_password)

\* init_db(): the users table u with the default admin row inserted when missing
init_db(u) ==
    IF ADMIN_EMAIL \in DOMAIN u THEN u
    ELSE (ADMIN_EMAIL :> [password_hash |-> hash_password("admin123"),
                          status |-> "approved", is_admin |-> 1]) @@ u

\* register_user(email, password): the users table afterwards; an e-mail already
\* stored is refused, a new row is 'pending' and its is_admin is the column default 0
register_user(u, email, password) ==
    IF email \in DOMAIN init_db(u) THEN init_db(u)
    ELSE (email :> [password_hash |-> hash_password(password),
                    status |-> "pending", is_admin |-> 0]) @@ init_db(u)

NoUser == [email |-> "None", is_admin |-> 0]

\* authenticate_user without its status test
authenticate_user_any_status(u, email, password) ==
    LET db == init_db(u) IN
    IF email \notin DOMAIN db THEN [found |-> FALSE, user |-> NoUser, error |-> "User not found."]
    ELSE IF ~verify_password(db[email].password_hash, password)
    THEN [found |-> FALSE, user |-> NoUser, error |-> "Incorrect password."]
    ELSE [found |-> TRUE, user |-> [email |-> email, is_admin |-> db[email].is_admin],
          error |-> "None"]

\* authenticate_user(email, password): (user_data, error_message), user_data
\* being None (found = FALSE) when authentication fails
authenticate_user(u, email, password) ==
    LET db == init_db(u) IN
    IF email \notin DOMAIN db THEN [found |-> FALSE, user |-> NoUser, error |-> "User not found."]
    ELSE IF ~verify_password(db[email].password_hash, password)
    THEN [found |-> FALSE, user |-> NoUser, error |-> "Incorrect password."]
    ELSE IF db[email].status # "approved"
    THEN [found |-> FALSE, user |-> NoUser, error |-> "Account is pending approval."]
    ELSE [found |-> TRUE, user |-> [email |-> email, is_admin |-> db[email].is_admin],
          error |-> "None"]

\* get_pending_users(): the e-mails waiting for approval
get_pending_users(u) == {e \in DOMAIN init_db(u) : init_db(u)[e].status = "pending"}

\* approve_user(email): UPDATE users SET status = 'approved' WHERE email = ?
approve_user(u, email) ==
    [e \in DOMAIN u |-> IF e = email THEN [u[e] EXCEPT !.status = "approved"] ELSE u[e]]

\* The browser sessions of the server.
Sessions == 1..MaxSessions

\* st.session_state as lines 40-45 initialise it; login_email and login_pass are
\* the keyed text boxes of the login form as last submitted
NewSession ==
    [logged_in |-> FALSE, user_email |-> "None", is_admin |-> FALSE,
     login_email |-> "", login_pass |-> ""]

\* ------------------------------------------------------------- the state

VARIABLES
    users,           \* the users table of users.db, by e-mail
    session_state,   \* st.session_state of each session
    disk,            \* the file at FILE_PATH
    cache,           \* the entries of st.cache_data, by the argument of load_all_data
    dfs,             \* what load_all_data returned to the last run
    filt,            \* the widget values of the last run (the filter specification)
    df_filtered,     \* the filtered Project rows
    total_value, total_count, avg_value,    \* the KPI scalars of lines 224-226
    top_sector,      \* the modal sector of line 227 ("" when that line raised)
    country_stats, sector_stats, year_stats,              \* the grouped charts
    selection,       \* the row selected in the Project List (0: none)
    details,         \* the drill-down dialog
    role_counts, company_counts, prod_stats,              \* the top-N views
    events_filtered, \* the Event Calendar
    ran,             \* the steps of the last run that completed
    outcome          \* how the last run ended

vars == <<users, session_state, disk, cache, dfs, filt, df_filtered, total_value, total_count, avg_value, top_sector,
          country_stats, sector_stats, year_stats, selection, details,
          role_counts, company_counts, prod_stats, events_filtered, ran, outcome>>

auth_vars == <<users, session_state>>

views == <<filt, df_filtered, total_value, total_count, avg_value, top_sector,
           country_stats, sector_stats, year_stats, selection, details,
           role_counts, company_counts, prod_stats, events_filtered>>

FILE_PATH == "ProjectListingExport-29-01-26-16-32-58.xlsx"

\* what `dfs = load_all_data(FILE_PATH)` of line 133 returns in this state
Load == cache_data(cache, FILE_PATH, disk)

\* The steps of main_dashboard after the load, in the order the script runs them.
Steps == <<"filter", "kpi", "charts", "tab1", "tab2", "tab3", "tab4">>

TopRoles == 10

TopCompanies == 10

TopProducts == 15

NoViews ==
    /\ filt' = NoFilter
    /\ df_filtered' = <<>>
    /\ total_value' = 0 /\ total_count' = 0 /\ avg_value' = Ratio(0, 1) /\ top_sector' = ""
    /\ country_stats' = <<>> /\ sector_stats' = <<>> /\ year_stats' = <<>>
    /\ selection' = 0 /\ details' = NoDetails
    /\ role_counts' = <<>> /\ company_counts' = <<>> /\ prod_stats' = <<>>
    /\ events_filtered' = <<>>
    /\ ran' = {}

\* The server has started (auth.py ran init_db() on import), no session has
\* logged in, nothing is cached, and the export is one of `files`.
Start(files) ==
    /\ users = init_db(<<>>)
    /\ session_state = [s \in Sessions |-> NewSession]
    /\ disk \in files
    /\ cache = <<>>
    /\ dfs = None
    /\ filt = NoFilter
    /\ df_filtered = <<>>
    /\ total_value = 0 /\ total_count = 0 /\ avg_value = Ratio(0, 1) /\ top_sector = ""
    /\ country_stats = <<>> /\ sector_stats = <<>> /\ year_stats = <<>>
    /\ selection = 0 /\ details = NoDetails
    /\ role_counts = <<>> /\ company_counts = <<>> /\ prod_stats = <<>>
    /\ events_filtered = <<>>
    /\ ran = {}
    /\ outcome = "not run"

Init == Start(Files)

\* ------------------------------------------------------- main_dashboard

\* lines 401-402: the script calls main_dashboard() for a session whose logged_in
\* flag is set
Authorized == \E s \in Sessions : session_state[s].logged_in

\* lines 128-130: the file is not there; st.error, st.stop() before any load
StopNoFile ==
    /\ Authorized
    /\ outcome = "not run"
    /\ disk.kind = "missing"
    /\ outcome' = "stopped: file not found"
    /\ NoViews
    /\ UNCHANGED <<auth_vars, disk, cache, dfs>>

\* lines 133-135: load_all_data returned None (or an empty dict); st.stop()
StopNoData ==
    /\ Authorized
    /\ outcome = "not run"
    /\ disk.kind # "missing"
    /\ ~Truthy(Load)
    /\ dfs' = Load
    /\ cache' = cache_store(cache, FILE_PATH, disk)
    /\ outcome' = "stopped: no data"
    /\ NoViews
    /\ UNCHANGED <<auth_vars, disk>>

\* lines 137, 156: dfs.get('Projects') is None and df_projects['Country'] raises
CrashNoProjects ==
    /\ Authorized
    /\ outcome = "not run"
    /\ disk.kind # "missing"
    /\ Truthy(Load)
    /\ ~Has(Load, "Projects")
    /\ dfs' = Load
    /\ cache' = cache_store(cache, FILE_PATH, disk)
    /\ outcome' = "TypeError"
    /\ NoViews
    /\ UNCHANGED <<auth_vars, disk>>

\* the first step of the run that raises, on frames d with filtered rows flt and
\* Project List selection sel ("none" when the script runs to its end)
Raises(d, f, flt, sel) ==
    CASE FilterRaises(d, f) -> "filter"
      [] flt # <<>> /\ Mode(flt, "Sector") = <<>> -> "kpi"
      [] ~HasIdColumn(d.frames["Projects"]) -> "tab1"
      [] sel > 0 /\ DialogStatus(d, flt[sel].New_ProjectId) # "shown" -> "tab1"
      [] Has(d, "Roles") /\ ~HasIdColumn(d.frames["Roles"]) -> "tab2"
      [] Has(d, "Products") /\ ~HasIdColumn(d.frames["Products"]) -> "tab3"
      [] Has(d, "Events") /\ ~HasIdColumn(d.frames["Events"]) -> "tab4"
      [] OTHER -> "none"

\* the steps that complete before step `failed` raises
Before(failed) ==
    IF failed = "none" THEN Range(Steps)
    ELSE {Steps[i] : i \in {j \in 1..Len(Steps) : \E k \in (j + 1)..Len(Steps) : Steps[k] = failed}}

\* the error a raising step ends the run with
ErrorOf(d, flt, sel, failed) ==
    CASE failed = "none" -> "done"
      [] failed = "tab1" /\ HasIdColumn(d.frames["Projects"]) ->
             DialogStatus(d, flt[sel].New_ProjectId)
      [] OTHER -> "KeyError"

\* the rows the Project List can have selected: none, or one row of df_display
\* when the script gets as far as drawing it
Selections(d, f, flt) ==
    IF "charts" \in Before(Raises(d, f, flt, 0)) /\ HasIdColumn(d.frames["Projects"])
       /\ ActiveCount(f) < MaxActive
    THEN 0..Len(flt) ELSE {0}

\* One script run past the load: widgets, filter step, KPI row, charts, tabs.
Dashboard ==
    /\ Authorized
    /\ outcome = "not run"
    /\ disk.kind # "missing"
    /\ Truthy(Load)
    /\ Has(Load, "Projects")
    /\ cache' = cache_store(cache, FILE_PATH, disk)
    /\ LET d == Load IN
       \E f \in FilterSpecs(d) :
       LET flt == IF FilterRaises(d, f) THEN <<>> ELSE ApplyFilters(d, f) IN
       \E sel \in Selections(d, f, flt) :
       LET failed == Raises(d, f, flt, sel)
           done == Before(failed)
           ids == Range(Column(flt, "New_ProjectId"))
           roles_filtered == IF Has(d, "Roles") /\ "tab2" \in done
                             THEN IdIsin(d.frames["Roles"].rows, ids) ELSE <<>>
           events_of_ids == IF Has(d, "Events") /\ "tab4" \in done
                            THEN IdIsin(d.frames["Events"].rows, ids) ELSE <<>>
           products_filtered == IF Has(d, "Products") /\ "tab3" \in done
                                THEN IdIsin(d.frames["Products"].rows, ids) ELSE <<>>
       IN
       /\ dfs' = d
       /\ filt' = f
       /\ ran' = done
       /\ outcome' = ErrorOf(d, flt, sel, failed)
       /\ df_filtered' = IF "filter" \in done THEN flt ELSE <<>>
       /\ total_value' = IF "filter" \in done THEN TotalValue(flt) ELSE 0
       /\ total_count' = IF "filter" \in done THEN Len(flt) ELSE 0
       /\ avg_value' = IF "filter" \in done THEN AvgValue(flt) ELSE Ratio(0, 1)
       /\ top_sector' = IF "kpi" \in done
                        THEN (IF flt # <<>> THEN Mode(flt, "Sector")[1] ELSE "N/A") ELSE ""
       /\ country_stats' = IF "charts" \in done THEN GroupSum(flt, "Country", "NetValue") ELSE <<>>
       /\ sector_stats' = IF "charts" \in done THEN GroupSum(flt, "Sector", "NetValue") ELSE <<>>
       /\ year_stats' = IF "charts" \in done THEN YearStats(flt) ELSE <<>>
       /\ selection' = sel
       /\ details' \in IF sel > 0
                       THEN {show_project_details(d, flt[sel].New_ProjectId, ev) :
                                ev \in DialogEvents(d, flt[sel].New_ProjectId)}
                       ELSE {NoDetails}
       /\ events_filtered' \in SortByDate(events_of_ids)
       /\ role_counts' \in {HeadN(t, TopRoles) : t \in SortValuesDesc(ValueCounts(roles_filtered, "Role"))}
       /\ company_counts' \in {HeadN(t, TopCompanies) :
                                  t \in SortValuesDesc(ValueCounts(roles_filtered, "CompanyName"))}
       /\ prod_stats' \in {HeadN(t, TopProducts) :
                              t \in SortValuesDesc(GroupSum(products_filtered, "Product", "Quantity"))}
    /\ UNCHANGED <<auth_vars, disk>>

\* A widget interaction (or a browser reload) starts the script again: an empty
\* page, and the run's local variables unset. Every further run of the script,
\* the login page's included, starts from there.
Rerun ==
    /\ outcome # "not run"
    /\ outcome' = "not run"
    /\ dfs' = None
    /\ NoViews
    /\ UNCHANGED <<auth_vars, disk, cache>>

main_dashboard == StopNoFile \/ StopNoData \/ CrashNoProjects \/ Dashboard

\* The export at FILE_PATH is replaced (or removed) between two runs while the
\* server keeps running.
ReplaceFile ==
    /\ outcome = "not run"
    /\ \E file \in SwapFiles \ {disk} : disk' = file
    /\ UNCHANGED <<auth_vars, cache, dfs, views, ran, outcome>>

\* login_page, lines 56-69: the "Log In" button of a session that is not logged
\* in, with the e-mail and password typed into the form
LogIn(s) ==
    /\ outcome = "not run"
    /\ ~session_state[s].logged_in
    /\ \E email \in TypedEmails, password \in TypedPasswords :
         LET typed == [session_state[s] EXCEPT !.login_email = email, !.login_pass = password]
             result == authenticate_user(users, email, password)
         IN  IF email = "" \/ password = ""
             THEN /\ session_state' = [session_state EXCEPT ![s] = typed]
                  /\ users' = users
             ELSE IF result.found
             THEN /\ session_state' =
                         [session_state EXCEPT ![s] =
                             [typed EXCEPT !.logged_in = TRUE,
                                           !.user_email = result.user.email,
                                           !.is_admin = (result.user.is_admin = 1)]]
                  /\ users' = init_db(users)
             ELSE /\ session_state' = [session_state EXCEPT ![s] = typed]
                  /\ users' = init_db(users)
    /\ UNCHANGED <<disk, cache, dfs, views, ran, outcome>>

\* login_page, lines 71-87: the "Sign Up" button; the form is refused when the
\* two passwords differ or a box is empty
SignUp(s) ==
    /\ outcome = "not run"
    /\ ~session_state[s].logged_in
    /\ \E new_email \in TypedEmails, new_pass \in TypedPasswords, new_pass_confirm \in TypedPasswords :
         IF new_pass # new_pass_confirm \/ new_email = "" \/ new_pass = ""
         THEN users' = users
         ELSE users' = register_user(users, new_email, new_pass)
    /\ UNCHANGED <<session_state, disk, cache, dfs, views, ran, outcome>>

login_page(s) == LogIn(s) \/ SignUp(s)

\* main_dashboard, lines 116-120: the Logout button; st.rerun() ends the run
\* before anything of the dashboard is drawn. The text boxes of the login form
\* were not drawn in this run, so their keys are gone.
Logout(s) ==
    /\ outcome = "not run"
    /\ session_state[s].logged_in
    /\ session_state' = [session_state EXCEPT ![s] = NewSession]
    /\ UNCHANGED <<users, disk, cache, dfs, views, ran, outcome>>

\* main_dashboard, lines 123-124, and admin_panel, lines 91-105: an admin session
\* presses Approve next to a pending user; st.rerun() ends the run before the load
Approve(s) ==
    /\ outcome = "not run"
    /\ session_state[s].logged_in
    /\ session_state[s].is_admin
    /\ \E email \in get_pending_users(users) : users' = approve_user(init_db(users), email)
    /\ UNCHANGED <<session_state, disk, cache, dfs, views, ran, outcome>>

\* the session the data views are followed for
Viewer == 1

\* One session logs in and the dashboard is run, over every workbook of Files.
Next == LogIn(Viewer) \/ main_dashboard

Spec == Init /\ [][Next]_vars

\* Run after run of the dashboard while the export is replaced, over SwapFiles.
CacheInit == Start(SwapFiles)

CacheNext == LogIn(Viewer) \/ main_dashboard \/ Rerun \/ ReplaceFile

CacheSpec == CacheInit /\ [][CacheNext]_vars

AuthInit == Start(AuthFiles)

\* lines 401-404 for every session: the dashboard, its Logout button and admin
\* panel for a session that is logged in, the login page for one that is not
AuthNext ==
    \/ \E s \in Sessions : login_page(s) \/ Logout(s) \/ Approve(s)
    \/ main_dashboard
    \/ Rerun

AuthSpec == AuthInit /\ [][AuthNext]_vars

\* ================================================================ claims

Loaded == "filter" \in ran

AllProjects == dfs.frames["Projects"].rows

\* s is t with some rows left out (the order kept)
RECURSIVE IsSubSeq(_, _)
IsSubSeq(s, t) ==
    IF s = <<>> THEN TRUE
    ELSE IF t = <<>> THEN FALSE
    ELSE IF Head(s) = Head(t) THEN IsSubSeq(Tail(s), Tail(t))
    ELSE IsSubSeq(s, Tail(t))

\* C1: the filtered Project collection is a sub-collection of the full Project
\* collection, and it is the full collection when no filter field is active.
C1_FilterSoundAndIdentity ==
    Loaded =>
        /\ IsSubSeq(df_filtered, AllProjects)
        /\ filt = NoFilter => df_filtered = AllProjects

\* a run with no filter set over a two-row Projects table shows both rows
C1_Witness ==
    /\ Loaded /\ filt = NoFilter
    /\ Len(AllProjects) > 1 /\ df_filtered = AllProjects

\* The direct clauses of the filter specification, stated row by row.
PassesDirect(row, f, hasNaN) ==
    /\ f.search_term = <<>>
       \/ NameContains(row.Project, StrLower(f.search_term))
       \/ IdContains(row.New_ProjectId, hasNaN, StrLower(f.search_term))
    /\ f.selected_countries = {} \/ row.Country \in f.selected_countries
    /\ f.selected_sectors = {} \/ row.Sector \in f.selected_sectors
    /\ f.selected_status = {} \/ row.ProjectStatus \in f.selected_status
    /\ f.selected_years = {} \/ row.AwardYear \in f.selected_years

\* some Role row names the project as owned by a selected company
OwnedBySelected(row, roles, companies) ==
    \E i \in 1..Len(roles) :
        /\ roles[i].Role = "Owner"
        /\ roles[i].CompanyName \in companies
        /\ roles[i].New_ProjectId = row.New_ProjectId

\* C3: with a non-empty clientCompanies and a Roles collection, a Project is in
\* the result iff it passes every other active filter and some Role row has
\* Role "Owner", a selected CompanyName and the Project's id.
C3_ClientFilterIff ==
    (Loaded /\ filt.selected_clients # {} /\ Has(dfs, "Roles")) =>
        LET hasNaN == NaN \in Range(Column(AllProjects, "New_ProjectId"))
            Expected(row) == /\ PassesDirect(row, filt, hasNaN)
                             /\ OwnedBySelected(row, dfs.frames["Roles"].rows, filt.selected_clients)
        IN  df_filtered = SelectSeq(AllProjects, Expected)

\* Kenya projects 1 and 2, Owner AquaCorp on project 1 and a Contractor row of
\* AquaCorp on project 2: countries = [Kenya] and clientCompanies = [AquaCorp]
\* give project 1 alone
C3_Witness ==
    /\ Loaded
    /\ filt.selected_countries = {"Kenya"} /\ filt.selected_clients = {"AquaCorp"}
    /\ Column(AllProjects, "New_ProjectId") = <<1, 2>>
    /\ Column(AllProjects, "Country") = <<"Kenya", "Kenya">>
    /\ \E r \in Range(dfs.frames["Roles"].rows) :
           r.Role = "Contractor" /\ r.CompanyName = "AquaCorp" /\ r.New_ProjectId = 2
    /\ Len(df_filtered) = 1 /\ df_filtered[1].New_ProjectId = 1

\* The client widget returns a selection only over a Roles frame with Owner rows
\* (lines 179-185), so the client clause of line 209 never meets a selection
\* without role data.
ClientsNeedRoles ==
    filt.selected_clients # {} =>
        /\ Has(dfs, "Roles")
        /\ \E r \in Range(dfs.frames["Roles"].rows) : r.Role = "Owner"

\* C4: a search text that is empty or only whitespace selects the same Projects
\* as an absent search text, whatever the other filters.
Whitespace(s) == \A i \in 1..Len(s) : s[i] = " "

C4_BlankSearchIsAbsent ==
    (Loaded /\ Whitespace(filt.search_term)) =>
        df_filtered = ApplyFilters(dfs, [filt EXCEPT !.search_term = <<>>])

\* C5: total value is the sum of netValue over the filtered rows, total count is
\* their number, the average is total/count when count > 0 and 0 when the
\* filtered set is empty, which is no error.
C5_KpiTotals ==
    Loaded =>
        /\ total_value = SeqSum([i \in 1..Len(df_filtered) |-> df_filtered[i].NetValue])
        /\ total_count = Len(df_filtered)
        /\ total_count > 0 => avg_value.num * total_count = total_value * avg_value.den
        /\ total_count > 0 => avg_value.den > 0
        /\ df_filtered = <<>> => avg_value.num = 0 /\ "kpi" \in ran

\* two filtered rows, one of them with an unparseable amount (read as 0)
C5_Witness ==
    /\ Loaded /\ total_count > 1 /\ total_value > 0
    /\ \E i \in 1..Len(df_filtered) : df_filtered[i].NetValue = 0

\* an empty result whose KPI row is computed
C5_WitnessEmpty == Loaded /\ AllProjects # <<>> /\ df_filtered = <<>> /\ "kpi" \in ran

StatsTotal(stats) == SeqSum([i \in 1..Len(stats) |-> stats[i].value])

\* C6: the per-country sums added over all country groups equal the total value,
\* and so do the per-sector sums, also when a country or sector is null.
C6_GroupsPartitionTotal ==
    "charts" \in ran =>
        /\ StatsTotal(country_stats) = total_value
        /\ StatsTotal(sector_stats) = total_value

\* position of the first row of df whose column col holds v
FirstSeen(df, col, v) == CHOOSE i \in 1..Len(df) : df[i][col] = v /\ \A j \in 1..(i - 1) : df[j][col] # v

\* a top-N view: at most n rows, non-increasing metric, ties in first-seen order
TopNStable(view, n, df, col) ==
    /\ Len(view) <= n
    /\ Descending(view)
    /\ \A i, j \in 1..Len(view) :
           (i < j /\ view[i].value = view[j].value) =>
               FirstSeen(df, col, view[i].key) < FirstSeen(df, col, view[j].key)

\* C7: each top-N view has at most N rows in non-increasing order of its metric,
\* and entries with equal metric keep their first-seen order.
C7_TopNStableTies ==
    "tab3" \in ran =>
        /\ Has(dfs, "Roles") =>
              /\ TopNStable(role_counts, TopRoles, dfs.frames["Roles"].rows, "Role")
              /\ TopNStable(company_counts, TopCompanies, dfs.frames["Roles"].rows, "CompanyName")
        /\ Has(dfs, "Products") =>
              TopNStable(prod_stats, TopProducts, dfs.frames["Products"].rows, "Product")

\* C8: the modal sector is "N/A" on an empty filtered set; on a non-empty one it
\* is computed without error and is a most frequent sector, the first
\* encountered of those that share the maximum.
C8_ModalSector ==
    Loaded =>
        /\ "kpi" \in ran
        /\ df_filtered = <<>> => top_sector = "N/A"
        /\ df_filtered # <<>> =>
              LET i == FirstSeen(df_filtered, "Sector", top_sector)
              IN  /\ top_sector \in Range(Column(df_filtered, "Sector"))
                  /\ \A v \in Range(Column(df_filtered, "Sector")) \ {NA} :
                         \/ CountOf(df_filtered, "Sector", v) < CountOf(df_filtered, "Sector", top_sector)
                         \/ /\ CountOf(df_filtered, "Sector", v) = CountOf(df_filtered, "Sector", top_sector)
                            /\ i <= FirstSeen(df_filtered, "Sector", v)

\* C9: a drill-down for an id that no Project record of the view carries ends in
\* a NotFound outcome, never in an unhandled error.
C9_DrillDownNotFound ==
    (selection > 0 /\ IdEquals(df_filtered, details.project_id) = <<>>) =>
        /\ details.status = "NotFound"
        /\ outcome = "done"

\* the load of this file is a LoadFailure: the file is missing or unreadable, or
\* a sheet of it has no identifier column under a known name
IsLoadFailure(file) ==
    \/ file.kind # "xlsx"
    \/ \E n \in DOMAIN file.sheets : file.sheets[n].idHeader = "ProjectId"

\* C10: a failed load yields no dataset at all and the dashboard stops before any
\* filter or aggregation step runs.
C10_LoadFailureIsTerminal ==
    (outcome # "not run" /\ IsLoadFailure(disk)) =>
        /\ dfs = None
        /\ ran = {}
        /\ outcome \in {"stopped: file not found", "stopped: no data"}

\* C11: a load after the file at the same path has been replaced returns the
\* normalization of the new file, never the stale cached one: whatever a run
\* that got to the load holds in dfs is the normalization of the file on disk.
C11_LoadFollowsFile ==
    outcome \notin {"not run", "stopped: file not found"} => dfs = load_all_data(disk)

\* repeated loads of an unchanged file: after a first run stored its entry, every
\* later run over the same file holds the stored result
CacheHitReturnsEntry ==
    (outcome \notin {"not run", "stopped: file not found"}) => dfs = cache[FILE_PATH]

\* every dated row before every row without a date, the dated rows ascending
DateSorted(s) ==
    \A i, j \in 1..Len(s) :
        (i < j /\ s[j].EventDate # NaN) =>
            /\ s[i].EventDate # NaN
            /\ s[i].EventDate <= s[j].EventDate

\* s and t hold the same rows, each as often
SameRows(s, t) ==
    /\ Len(s) = Len(t)
    /\ \A x \in Range(s) \cup Range(t) :
           Cardinality({i \in 1..Len(s) : s[i] = x}) = Cardinality({i \in 1..Len(t) : t[i] = x})

\* C12: the Event rows the drill-down returns for one project, and the Event
\* rows of the event view restricted to the filtered project ids, are ordered
\* ascending by eventDate with every null-date row after every dated row.
C12_EventsSortedNullsLast ==
    /\ (details.status = "shown" /\ Has(dfs, "Events")) =>
           /\ DateSorted(details.evts)
           /\ SameRows(details.evts, IdEquals(dfs.frames["Events"].rows, details.project_id))
    /\ ("tab4" \in ran /\ Has(dfs, "Events")) =>
           /\ DateSorted(events_filtered)
           /\ SameRows(events_filtered,
                       IdIsin(dfs.frames["Events"].rows, Range(Column(df_filtered, "New_ProjectId"))))

\* the sheet lists project 1's undated event before its dated one; the dialog of
\* project 1 and the event view both come back with the dated row first
C12_Witness ==
    /\ details.status = "shown" /\ details.project_id = 1 /\ "tab4" \in ran
    /\ Has(dfs, "Events")
    /\ Column(dfs.frames["Events"].rows, "EventDate") = <<NaN, 20200501>>
    /\ Column(details.evts, "EventDate") = <<20200501, NaN>>
    /\ Column(events_filtered, "EventDate") = <<20200501, NaN>>

\* the clauses whose `if` guard holds under f over the frames d
ActiveClauses(d, f) ==
    {c \in Clauses :
        CASE c = "search" -> f.search_term # <<>>
          [] c = "country" -> f.selected_countries # {}
          [] c = "sector" -> f.selected_sectors # {}
          [] c = "status" -> f.selected_status # {}
          [] c = "year" -> f.selected_years # {}
          [] c = "client" -> f.selected_clients # {} /\ Has(d, "Roles")}

\* one clause of lines 191-216 applied to the rows df
ApplyClause(df, d, f, c) ==
    CASE c = "search" -> SearchFilter(df, IdIsFloat(d), f.search_term)
      [] c = "country" -> IsinFilter(df, "Country", f.selected_countries)
      [] c = "sector" -> IsinFilter(df, "Sector", f.selected_sectors)
      [] c = "status" -> IsinFilter(df, "ProjectStatus", f.selected_status)
      [] c = "year" -> IsinFilter(df, "AwardYear", f.selected_years)
      [] c = "client" -> ClientFilter(df, d, f.selected_clients)

\* the clauses applied one after the other in the order given
RECURSIVE ApplyInOrder(_, _, _, _)
ApplyInOrder(df, d, f, order) ==
    IF order = <<>> THEN df
    ELSE ApplyInOrder(ApplyClause(df, d, f, Head(order)), d, f, Tail(order))

\* every order of the clauses of C
Orders(C) ==
    {o \in [1..Cardinality(C) -> C] : \A i, j \in 1..Cardinality(C) : i # j => o[i] # o[j]}

Ids(df) == Range(Column(df, "New_ProjectId"))

\* C13: applying the active filter clauses (search, country, sector, status,
\* award year, client) in any order yields the same set of project ids as the
\* order main_dashboard uses.
C13_FiltersCommute ==
    Loaded =>
        \A o \in Orders(ActiveClauses(dfs, filt)) :
            Ids(ApplyInOrder(AllProjects, dfs, filt, o)) = Ids(df_filtered)

\* not only the ids: the rows, in their order
FiltersCommuteRows ==
    Loaded =>
        \A o \in Orders(ActiveClauses(dfs, filt)) :
            ApplyInOrder(AllProjects, dfs, filt, o) = df_filtered

\* a country and a sector are selected, the country clause alone and the sector
\* clause alone keep different rows, and a project is left after both
C13_Witness ==
    /\ Loaded /\ df_filtered # <<>>
    /\ filt.selected_countries # {} /\ filt.selected_sectors # {}
    /\ IsinFilter(AllProjects, "Country", filt.selected_countries)
           # IsinFilter(AllProjects, "Sector", filt.selected_sectors)

\* a search for "2." over ids read as floats ("2.0"), with a second clause that
\* drops the row whose id is blank
C13_WitnessSearch ==
    /\ Loaded /\ df_filtered # <<>>
    /\ filt.search_term = <<"2", ".">> /\ filt.selected_sectors # {}
    /\ IdIsFloat(dfs)
    /\ NaN \notin Ids(IsinFilter(AllProjects, "Sector", filt.selected_sectors))

\* no session is logged in as a user who is missing or not approved, and a
\* session's is_admin is set only for a logged-in user stored with is_admin = 1
GateInv ==
    \A s \in Sessions :
        LET ss == session_state[s] IN
        /\ ss.logged_in =>
               /\ ss.user_email \in DOMAIN users
               /\ users[ss.user_email].status = "approved"
        /\ ss.is_admin => ss.logged_in /\ users[ss.user_email].is_admin = 1

\* logged_in rises only through a log-in whose e-mail is stored, whose password
\* matches the stored hash and whose status is 'approved' in the table at that
\* moment; a run of main_dashboard, the load included, starts only with a
\* session logged in
GateStep ==
    /\ \A s \in Sessions :
          (~session_state[s].logged_in /\ session_state'[s].logged_in) =>
              LET e == session_state'[s].login_email
                  p == session_state'[s].login_pass
              IN  /\ e \in DOMAIN users
                  /\ users[e].password_hash = hash_password(p)
                  /\ users[e].status = "approved"
                  /\ session_state'[s].user_email = e
                  /\ session_state'[s].is_admin = (users[e].is_admin = 1)
    /\ (outcome = "not run" /\ outcome' # "not run") => Authorized
    /\ cache' # cache => Authorized

\* C14: logged_in becomes true only through authenticate_user succeeding for an
\* existing user whose password matches and whose status is 'approved' at that
\* moment; a pending user is never logged in; main_dashboard and the data load
\* run only while logged_in is true; is_admin is true in a session only if the
\* logged-in user's stored is_admin is 1.
C14_AccessGate == []GateInv /\ [][GateStep]_vars

\* the registered user, refused while pending, is logged in after the approval
\* and has the dashboard drawn without admin rights, the admin being logged in
\* in the other session
C14_Witness ==
    /\ \E s \in Sessions :
          /\ session_state[s].logged_in
          /\ session_state[s].user_email = "user@example.com"
          /\ ~session_state[s].is_admin
    /\ \E s \in Sessions : session_state[s].is_admin
    /\ outcome = "done"

\* a session has typed the right password of an account that is still pending
PendingRefused ==
    /\ "user@example.com" \in DOMAIN users
    /\ users["user@example.com"].status = "pending"
    /\ \E s \in Sessions :
          /\ ~session_state[s].logged_in
          /\ session_state[s].login_email = "user@example.com"
          /\ verify_password(users["user@example.com"].password_hash, session_state[s].login_pass)

====
